---- MODULE Spec2Model ----
(***************************************************************************)
(* Model of drivers/hid/hid-steelseries-headset.c: the per-device state of *)
(* struct steelseries_headset, the probe path, the raw_event report path,  *)
(* the delayed battery work and the remove path.                           *)
(*                                                                         *)
(* Contexts: the probe thread, one report-delivery context (raw_event),    *)
(* the workqueue worker that runs battery_work, and the remove thread.     *)
(* Reports may be delivered any time once hid_hw_start() has returned,     *)
(* also while remove runs and after it has returned.                       *)
(*                                                                         *)
(* struct delayed_work is modelled by work_init (INIT_DELAYED_WORK ran),   *)
(* work_pending (number of queued instances; the kernel keeps one PENDING  *)
(* bit), timer_remaining (ms until the timer of a pending instance         *)
(* expires) and pc_tick (the worker's position in the callback).           *)
(***************************************************************************)
EXTENDS Integers, Naturals, Sequences, FiniteSets, TLC

\* ---------------------------------------------------------------- bounds

\* Number of reports the transport delivers in one behaviour.
MaxReports == 3

\* Amounts of time, in ms, by which the clock advances in one step.
TimeSteps == {1000, 2000}

\* ---------------------------------------------------- program constants

STEELSERIES_ARCTIS_1 == 1

STEELSERIES_HEADSET_BATTERY_TIMEOUT_MS == 3000

ARCTIS_1_BATTERY_RESPONSE_LEN == 8

\* driver_data of the only entry of steelseries_headset_devices
quirks == STEELSERIES_ARCTIS_1

\* Inbound reports: size, read_buf[2], read_buf[3].
ReportSizes ==
    {ARCTIS_1_BATTERY_RESPONSE_LEN - 1, ARCTIS_1_BATTERY_RESPONSE_LEN}
Byte2Values == {0, 1}
Byte3Values == {0, 77, 100, 255}
Reports == [size : ReportSizes, b2 : Byte2Values, b3 : Byte3Values]

NoReport == [size |-> 0, b2 |-> 0, b3 |-> 0]

ENOMEM == 12

ENODATA == 61
EINVAL == 22

\* arctis_1_fetch_battery: char battery_request[2] = { 0x06, 0x12 }
battery_request == <<6, 18>>

\* Results of hid_hw_raw_request: a negative errno (-EPIPE) or the number
\* of bytes the transport accepted.
TransportResults == {-32, 0, 1, 2}

\* No call of arctis_1_fetch_battery is active in the context.
NoFetch == [st |-> "none", id |-> 0, buf |-> <<>>, hw |-> 0, ret |-> 0]

\* no steelseries_headset_battery_get_property call is in progress
NoRead == [psp |-> "none", ret |-> 0, intval |-> "unset"]

VARIABLES
    pc_probe,          \* position of steelseries_headset_probe
    pc_event,          \* position of steelseries_headset_raw_event
    pc_remove,         \* position of steelseries_headset_remove
    pc_tick,           \* position of steelseries_headset_battery_timer_tick
    hw,                \* transport: "off", "started", "stopped"
    headset_connected, \* headset->headset_connected
    battery_capacity,  \* headset->battery_capacity (uint8_t)
    removed,           \* headset->removed
    battery,           \* headset->battery: "null", "valid", "err"
    lock,              \* owner of headset->lock: "none", "event", "remove"
    ev_arm,            \* raw_event: result of the !headset->removed test
    work_init,         \* INIT_DELAYED_WORK(&headset->battery_work) has run
    work_pending,      \* queued instances of battery_work
    timer_remaining,   \* ms until the pending instance's timer expires
    sched_ret,         \* latest return of schedule_delayed_work, or "none"
    work_misuse,       \* battery_work was used before INIT_DELAYED_WORK
    crashed,           \* an invalid pointer was dereferenced
    last_report,       \* the report given to the latest raw_event call
    n_delivered,       \* raw_event calls made
    n_reports,         \* raw_event calls with size >= 8
    n_ticks,           \* executions of battery_timer_tick started
    wireless_calls,    \* calls of usb_set_wireless_status
    wireless_status,   \* argument of the latest usb_set_wireless_status
    ps_changed_calls,  \* calls of power_supply_changed
    tick_fetch,        \* fetch_battery called by the tick: request and ret
    probe_fetch,       \* fetch_battery called by battery_register
    prop_read          \* get_property call in progress: psp, ret, intval

vars == <<pc_probe, pc_event, pc_remove, pc_tick, hw, headset_connected,
          battery_capacity, removed, battery, lock, ev_arm, work_init,
          work_pending, timer_remaining, sched_ret, work_misuse, crashed,
          last_report, n_delivered, n_reports, n_ticks, wireless_calls,
          wireless_status, ps_changed_calls, tick_fetch, probe_fetch,
          prop_read>>

\* the state of the driver: everything but the reader's call
driver_vars ==
    <<pc_probe, pc_event, pc_remove, pc_tick, hw, headset_connected,
      battery_capacity, removed, battery, lock, ev_arm, work_init,
      work_pending, timer_remaining, sched_ret, work_misuse, crashed,
      last_report, n_delivered, n_reports, n_ticks, wireless_calls,
      wireless_status, ps_changed_calls, tick_fetch, probe_fetch>>

\* devm_kzalloc: every field of struct steelseries_headset is zero.
Init ==
    /\ pc_probe = "start"
    /\ pc_event = "idle"
    /\ pc_remove = "idle"
    /\ pc_tick = "idle"
    /\ hw = "off"
    /\ headset_connected = FALSE
    /\ battery_capacity = 0
    /\ removed = FALSE
    /\ battery = "null"
    /\ lock = "none"
    /\ ev_arm = FALSE
    /\ work_init = FALSE
    /\ work_pending = 0
    /\ timer_remaining = 0
    /\ sched_ret = "none"
    /\ work_misuse = FALSE
    /\ crashed = FALSE
    /\ last_report = NoReport
    /\ n_delivered = 0
    /\ n_reports = 0
    /\ n_ticks = 0
    /\ wireless_calls = 0
    /\ wireless_status = "none"
    /\ ps_changed_calls = 0
    /\ tick_fetch = NoFetch
    /\ probe_fetch = NoFetch
    /\ prop_read = NoRead

\* ------------------------------------------------------------- helpers

Max(a, b) == IF a > b THEN a ELSE b

\* headset->quirks & STEELSERIES_ARCTIS_1 (one flag bit)
HasQuirk(q, flag) == (q \div flag) % 2 = 1

\* Fault variant: the size test is off by one.
TooShort_seven(size) == size < ARCTIS_1_BATTERY_RESPONSE_LEN - 1

\* raw_event: if (size < 8) return 0;
TooShort(size) == size < ARCTIS_1_BATTERY_RESPONSE_LEN

\* Fault variant: the connected flag is never raised.
ParseConnected_never(r) == FALSE

\* raw_event: the candidate connected value
ParseConnected(r) == IF r.b2 = 1 THEN FALSE ELSE TRUE

\* Fault variant: a disconnected headset reports 0%.
ParseCapacity_zero(r) == IF r.b2 = 1 THEN 0 ELSE r.b3

\* raw_event: the candidate capacity value
ParseCapacity(r) == IF r.b2 = 1 THEN 100 ELSE r.b3

\* Fault variant: battery_capacity is a signed 8-bit field.
ToU8_signed(x) == IF x % 256 > 127 THEN (x % 256) - 256 ELSE x % 256

\* store of an int into the uint8_t battery_capacity
ToU8(x) == x % 256

\* raw_event: if (connected != headset->headset_connected)
ConnectedChanged(connected) == connected # headset_connected

\* Fault variant: power_supply_changed on every report.
CapacityChanged_always(capacity) == TRUE

\* raw_event: if (capacity != headset->battery_capacity)
CapacityChanged(capacity) == capacity # battery_capacity

\* power_supply_changed(headset->battery) dereferences headset->battery
BatteryDerefFaults == battery # "valid"

\* the power-supply properties a reader may ask for: the four of
\* steelseries_headset_battery_props and one the driver does not serve
Properties == {"PRESENT", "STATUS", "SCOPE", "CAPACITY", "MODEL_NAME"}

\* Fault variant: the status does not follow headset_connected.
GetProperty_discharging(psp) ==
    CASE psp = "PRESENT"  -> [ret |-> 0, intval |-> 1]
      [] psp = "STATUS"   -> [ret |-> 0, intval |-> "DISCHARGING"]
      [] psp = "SCOPE"    -> [ret |-> 0, intval |-> "DEVICE"]
      [] psp = "CAPACITY" -> [ret |-> 0, intval |-> battery_capacity]
      [] OTHER            -> [ret |-> -EINVAL, intval |-> "unset"]

\* steelseries_headset_battery_get_property: the return value and
\* val->intval, read from the current device state
GetProperty(psp) ==
    CASE psp = "PRESENT"  -> [ret |-> 0, intval |-> 1]
      [] psp = "STATUS"   -> [ret |-> 0,
                              intval |-> IF headset_connected
                                         THEN "DISCHARGING" ELSE "UNKNOWN"]
      [] psp = "SCOPE"    -> [ret |-> 0, intval |-> "DEVICE"]
      [] psp = "CAPACITY" -> [ret |-> 0, intval |-> battery_capacity]
      [] OTHER            -> [ret |-> -EINVAL, intval |-> "unset"]

\* Fault variant: the lock excludes nobody.
LockAvailable_always == TRUE

\* spin_lock_irqsave(&headset->lock) returns once the lock is free
LockAvailable == lock = "none"

\* Fault variant: the unlock is missing, the holder keeps the lock.
LockReleased_held == lock

\* spin_unlock_irqrestore(&headset->lock): the lock has no owner
LockReleased == "none"

\* raw_event: if (!headset->removed)
RemovedCheck == ~removed

\* Fault variant: remove does not set the flag.
RemovedAfterRemove_unset == FALSE

\* remove: headset->removed = true
RemovedAfterRemove == TRUE

\* cancel_delayed_work_sync has claimed the work and waits for the callback:
\* the work cannot be queued meanwhile
WorkCanceling == pc_remove = "flush"

\* Fault variant: every call queues another instance.
ScheduledPending_dup(p) == p + 1

\* schedule_delayed_work: queues the work unless it is already pending
\* (returns false and leaves the pending instance and its timer alone)
ScheduledPending(p) == IF p > 0 \/ WorkCanceling THEN p ELSE 1

\* Fault variant: mod_delayed_work, every call restarts the timer.
ScheduledTimer_mod(p, rem) == STEELSERIES_HEADSET_BATTERY_TIMEOUT_MS

\* schedule_delayed_work: the timer of the instance pending after the call
ScheduledTimer(p, rem) ==
    IF p > 0 \/ WorkCanceling THEN rem
    ELSE STEELSERIES_HEADSET_BATTERY_TIMEOUT_MS

\* schedule_delayed_work: false if the work was already pending
ScheduledReturn(p) == IF p > 0 \/ WorkCanceling THEN "false" ELSE "true"

\* Fault variant: the cancel leaves the pending instance queued.
CancelledPending_kept(p) == p

\* cancel_delayed_work_sync: the pending instances left after the cancel
CancelledPending(p) == 0

\* Fault variant: cancel_delayed_work, which does not wait.
FlushComplete_nowait == TRUE

\* cancel_delayed_work_sync returns once no callback instance is executing
FlushComplete == pc_tick = "idle"

\* Fault variant: the callback queues itself again.
PendingAfterTick_rearm(p) == 1

\* battery_timer_tick: the pending instances after the callback returned
\* (the callback only calls fetch_battery)
PendingAfterTick(p) == p

\* ret < sizeof(battery_request): ret is an int and sizeof a size_t, so ret
\* is converted to unsigned long; a negative ret becomes a value above
\* every size and the comparison is false.
LessThanSize(ret, size) == IF ret < 0 THEN FALSE ELSE ret < size

\* Fault variant: only transport errors are failures, short writes pass.
Arctis1FetchResult_short(hwret) == IF hwret < 0 THEN -ENODATA ELSE hwret

\* arctis_1_fetch_battery: the value returned for transport result hwret
Arctis1FetchResult(hwret) ==
    IF LessThanSize(hwret, Len(battery_request)) THEN -ENODATA ELSE hwret

\* arctis_1_fetch_battery: hid_hw_raw_request(hdev, battery_request[0],
\* write_buf, sizeof(battery_request), ...) is in flight
FetchRequest ==
    [st |-> "request", id |-> battery_request[1], buf |-> battery_request,
     hw |-> 0, ret |-> 0]

\* arctis_1_fetch_battery: hid_hw_raw_request returned hwret
FetchReturned(hwret) ==
    [st |-> "returned", id |-> battery_request[1], buf |-> <<>>,
     hw |-> hwret, ret |-> Arctis1FetchResult(hwret)]

\* hid_hw_raw_request has been called and has not returned: a battery
\* request of the poll tick or of the attach-time fetch is in flight
InFlight == tick_fetch.st = "request" \/ probe_fetch.st = "request"

\* ------------------------------------------------------------- probe

\* devm_kzalloc, hid_parse, hid_hw_start: on failure probe returns the error
Probe_start ==
    /\ ~crashed
    /\ pc_probe = "start"
    /\ \/ /\ pc_probe' = "failed"
          /\ hw' = hw
       \/ /\ pc_probe' = "register_name"
          /\ hw' = "started"
    /\ UNCHANGED <<pc_event, pc_remove, pc_tick, headset_connected,
                   battery_capacity, removed, battery, lock, ev_arm, work_init,
                   work_pending, timer_remaining, sched_ret, work_misuse,
                   crashed, last_report, n_delivered, n_reports, n_ticks,
                   wireless_calls, wireless_status, ps_changed_calls,
                   tick_fetch, probe_fetch, prop_read>>

\* battery_register: devm_kasprintf, then battery_capacity = 100
BatteryRegister_name ==
    /\ ~crashed
    /\ pc_probe = "register_name"
    /\ \/ /\ pc_probe' = "done"               \* return -ENOMEM
          /\ battery_capacity' = battery_capacity
       \/ /\ pc_probe' = "register_supply"
          /\ battery_capacity' = 100
    /\ UNCHANGED <<pc_event, pc_remove, pc_tick, hw, headset_connected,
                   removed, battery, lock, ev_arm, work_init, work_pending,
                   timer_remaining, sched_ret, work_misuse, crashed,
                   last_report, n_delivered, n_reports, n_ticks,
                   wireless_calls, wireless_status, ps_changed_calls,
                   tick_fetch, probe_fetch, prop_read>>

\* battery_register: devm_power_supply_register
BatteryRegister_supply ==
    /\ ~crashed
    /\ pc_probe = "register_supply"
    /\ \/ /\ pc_probe' = "done"               \* return PTR_ERR
          /\ battery' = "err"
       \/ /\ pc_probe' = "init_work"
          /\ battery' = "valid"
    /\ UNCHANGED <<pc_event, pc_remove, pc_tick, hw, headset_connected,
                   battery_capacity, removed, lock, ev_arm, work_init,
                   work_pending, timer_remaining, sched_ret, work_misuse,
                   crashed, last_report, n_delivered, n_reports, n_ticks,
                   wireless_calls, wireless_status, ps_changed_calls,
                   tick_fetch, probe_fetch, prop_read>>

\* battery_register: INIT_DELAYED_WORK resets the work and its timer
BatteryRegister_init_work ==
    /\ ~crashed
    /\ pc_probe = "init_work"
    /\ pc_probe' = "fetch"
    /\ work_init' = TRUE
    /\ work_pending' = 0
    /\ timer_remaining' = 0
    /\ UNCHANGED <<pc_event, pc_remove, pc_tick, hw, headset_connected,
                   battery_capacity, removed, battery, lock, ev_arm, sched_ret,
                   work_misuse, crashed, last_report, n_delivered, n_reports,
                   n_ticks, wireless_calls, wireless_status, ps_changed_calls,
                   tick_fetch, probe_fetch, prop_read>>

\* battery_register: steelseries_headset_fetch_battery; kmemdup may fail
\* (return -ENOMEM), otherwise hid_hw_raw_request is issued
BatteryRegister_fetch ==
    /\ ~crashed
    /\ pc_probe = "fetch"
    /\ \/ /\ pc_probe' = "done"
          /\ probe_fetch' = probe_fetch
       \/ /\ HasQuirk(quirks, STEELSERIES_ARCTIS_1)
          /\ pc_probe' = "fetch_request"
          /\ probe_fetch' = FetchRequest
    /\ UNCHANGED <<pc_event, pc_remove, pc_tick, hw, headset_connected,
                   battery_capacity, removed, battery, lock, ev_arm, work_init,
                   work_pending, timer_remaining, sched_ret, work_misuse,
                   crashed, last_report, n_delivered, n_reports, n_ticks,
                   wireless_calls, wireless_status, ps_changed_calls,
                   tick_fetch, prop_read>>

\* battery_register: hid_hw_raw_request returned; ret is checked against
\* sizeof(battery_request) and write_buf freed
BatteryRegister_request ==
    /\ ~crashed
    /\ pc_probe = "fetch_request"
    /\ pc_probe' = "fetch_returned"
    /\ \E hwret \in TransportResults : probe_fetch' = FetchReturned(hwret)
    /\ UNCHANGED <<pc_event, pc_remove, pc_tick, hw, headset_connected,
                   battery_capacity, removed, battery, lock, ev_arm, work_init,
                   work_pending, timer_remaining, sched_ret, work_misuse,
                   crashed, last_report, n_delivered, n_reports, n_ticks,
                   wireless_calls, wireless_status, ps_changed_calls,
                   tick_fetch, prop_read>>

\* battery_register: fetch_battery logs a negative ret and returns;
\* return 0
BatteryRegister_return ==
    /\ ~crashed
    /\ pc_probe = "fetch_returned"
    /\ pc_probe' = "done"
    /\ probe_fetch' = NoFetch
    /\ UNCHANGED <<pc_event, pc_remove, pc_tick, hw, headset_connected,
                   battery_capacity, removed, battery, lock, ev_arm, work_init,
                   work_pending, timer_remaining, sched_ret, work_misuse,
                   crashed, last_report, n_delivered, n_reports, n_ticks,
                   wireless_calls, wireless_status, ps_changed_calls,
                   tick_fetch, prop_read>>

\* ------------------------------------------------------------ raw_event

\* raw_event up to the spin_lock_irqsave: the size test, the parse, the
\* compare-and-store of headset_connected and battery_capacity with their
\* notifications.  power_supply_changed on an unregistered battery faults.
RawEvent_parse(r) ==
    /\ ~crashed
    /\ pc_event = "idle"
    /\ hw # "off"
    /\ n_delivered < MaxReports
    /\ n_delivered' = n_delivered + 1
    /\ last_report' = r
    /\ IF HasQuirk(quirks, STEELSERIES_ARCTIS_1) /\ TooShort(r.size)
       THEN /\ pc_event' = "idle"
            /\ UNCHANGED <<headset_connected, battery_capacity, crashed,
                           n_reports, wireless_calls, wireless_status,
                           ps_changed_calls>>
       ELSE LET connected == IF HasQuirk(quirks, STEELSERIES_ARCTIS_1)
                             THEN ParseConnected(r) ELSE headset_connected
                capacity  == IF HasQuirk(quirks, STEELSERIES_ARCTIS_1)
                             THEN ParseCapacity(r) ELSE battery_capacity
            IN  /\ n_reports' = n_reports + 1
                /\ IF ConnectedChanged(connected)
                   THEN /\ headset_connected' = connected
                        /\ wireless_calls' = wireless_calls + 1
                        /\ wireless_status' = IF connected THEN "connected"
                                              ELSE "disconnected"
                   ELSE UNCHANGED <<headset_connected, wireless_calls,
                                    wireless_status>>
                /\ IF CapacityChanged(capacity)
                   THEN /\ battery_capacity' = ToU8(capacity)
                        /\ ps_changed_calls' = ps_changed_calls + 1
                        /\ crashed' = BatteryDerefFaults
                   ELSE UNCHANGED <<battery_capacity, ps_changed_calls,
                                    crashed>>
                /\ pc_event' = IF crashed' THEN "oops" ELSE "lock"
    /\ UNCHANGED <<pc_probe, pc_remove, pc_tick, hw, removed, battery, lock,
                   ev_arm, work_init, work_pending, timer_remaining, sched_ret,
                   work_misuse, n_ticks, tick_fetch, probe_fetch, prop_read>>

\* raw_event: spin_lock_irqsave(&headset->lock, flags)
RawEvent_lock ==
    /\ ~crashed
    /\ pc_event = "lock"
    /\ LockAvailable
    /\ lock' = "event"
    /\ pc_event' = "check"
    /\ UNCHANGED <<pc_probe, pc_remove, pc_tick, hw, headset_connected,
                   battery_capacity, removed, battery, ev_arm, work_init,
                   work_pending, timer_remaining, sched_ret, work_misuse,
                   crashed, last_report, n_delivered, n_reports, n_ticks,
                   wireless_calls, wireless_status, ps_changed_calls,
                   tick_fetch, probe_fetch, prop_read>>

\* raw_event: if (!headset->removed)
RawEvent_check ==
    /\ ~crashed
    /\ pc_event = "check"
    /\ ev_arm' = RemovedCheck
    /\ pc_event' = IF ev_arm' THEN "schedule" ELSE "unlock"
    /\ UNCHANGED <<pc_probe, pc_remove, pc_tick, hw, headset_connected,
                   battery_capacity, removed, battery, lock, work_init,
                   work_pending, timer_remaining, sched_ret, work_misuse,
                   crashed, last_report, n_delivered, n_reports, n_ticks,
                   wireless_calls, wireless_status, ps_changed_calls,
                   tick_fetch, probe_fetch, prop_read>>

\* raw_event: schedule_delayed_work(&headset->battery_work, 3000 ms).
\* On a work that INIT_DELAYED_WORK has not set up the PENDING bit is taken
\* but no timer runs (the timer has no function).
RawEvent_schedule ==
    /\ ~crashed
    /\ pc_event = "schedule"
    /\ work_pending' = ScheduledPending(work_pending)
    /\ timer_remaining' = IF work_init
                          THEN ScheduledTimer(work_pending, timer_remaining)
                          ELSE timer_remaining
    /\ sched_ret' = ScheduledReturn(work_pending)
    /\ work_misuse' = (work_misuse \/ ~work_init)
    /\ pc_event' = "unlock"
    /\ UNCHANGED <<pc_probe, pc_remove, pc_tick, hw, headset_connected,
                   battery_capacity, removed, battery, lock, ev_arm, work_init,
                   crashed, last_report, n_delivered, n_reports, n_ticks,
                   wireless_calls, wireless_status, ps_changed_calls,
                   tick_fetch, probe_fetch, prop_read>>

\* raw_event: spin_unlock_irqrestore(&headset->lock, flags); return 0
RawEvent_unlock ==
    /\ ~crashed
    /\ pc_event = "unlock"
    /\ lock' = LockReleased
    /\ pc_event' = "idle"
    /\ UNCHANGED <<pc_probe, pc_remove, pc_tick, hw, headset_connected,
                   battery_capacity, removed, battery, ev_arm, work_init,
                   work_pending, timer_remaining, sched_ret, work_misuse,
                   crashed, last_report, n_delivered, n_reports, n_ticks,
                   wireless_calls, wireless_status, ps_changed_calls,
                   tick_fetch, probe_fetch, prop_read>>

\* --------------------------------------------------- the delayed work

\* Time passes while the timer of a pending instance runs.
TimerAdvance ==
    /\ ~crashed
    /\ work_init
    /\ work_pending > 0
    /\ timer_remaining > 0
    /\ \E d \in TimeSteps : timer_remaining' = Max(0, timer_remaining - d)
    /\ UNCHANGED <<pc_probe, pc_event, pc_remove, pc_tick, hw,
                   headset_connected, battery_capacity, removed, battery, lock,
                   ev_arm, work_init, work_pending, sched_ret, work_misuse,
                   crashed, last_report, n_delivered, n_reports, n_ticks,
                   wireless_calls, wireless_status, ps_changed_calls,
                   tick_fetch, probe_fetch, prop_read>>

\* The timer expired: a worker takes the pending instance and enters
\* steelseries_headset_battery_timer_tick.  A work item never runs
\* concurrently with itself.
BatteryTimerTick_start ==
    /\ ~crashed
    /\ work_init
    /\ work_pending > 0
    /\ timer_remaining = 0
    /\ pc_tick = "idle"
    /\ n_ticks <= MaxReports
    /\ work_pending' = work_pending - 1
    /\ n_ticks' = n_ticks + 1
    /\ pc_tick' = "fetch"
    /\ UNCHANGED <<pc_probe, pc_event, pc_remove, hw, headset_connected,
                   battery_capacity, removed, battery, lock, ev_arm, work_init,
                   timer_remaining, sched_ret, work_misuse, crashed,
                   last_report, n_delivered, n_reports, wireless_calls,
                   wireless_status, ps_changed_calls, tick_fetch, probe_fetch,
                   prop_read>>

\* battery_timer_tick: steelseries_headset_fetch_battery; kmemdup may fail
\* (the callback returns), otherwise hid_hw_raw_request is issued
BatteryTimerTick_fetch ==
    /\ ~crashed
    /\ pc_tick = "fetch"
    /\ \/ /\ pc_tick' = "idle"
          /\ work_pending' = PendingAfterTick(work_pending)
          /\ tick_fetch' = tick_fetch
       \/ /\ HasQuirk(quirks, STEELSERIES_ARCTIS_1)
          /\ pc_tick' = "request"
          /\ work_pending' = work_pending
          /\ tick_fetch' = FetchRequest
    /\ UNCHANGED <<pc_probe, pc_event, pc_remove, hw, headset_connected,
                   battery_capacity, removed, battery, lock, ev_arm, work_init,
                   timer_remaining, sched_ret, work_misuse, crashed,
                   last_report, n_delivered, n_reports, n_ticks,
                   wireless_calls, wireless_status, ps_changed_calls,
                   probe_fetch, prop_read>>

\* battery_timer_tick: hid_hw_raw_request returned; ret is checked against
\* sizeof(battery_request) and write_buf freed
BatteryTimerTick_request ==
    /\ ~crashed
    /\ pc_tick = "request"
    /\ pc_tick' = "returned"
    /\ \E hwret \in TransportResults : tick_fetch' = FetchReturned(hwret)
    /\ UNCHANGED <<pc_probe, pc_event, pc_remove, hw, headset_connected,
                   battery_capacity, removed, battery, lock, ev_arm, work_init,
                   work_pending, timer_remaining, sched_ret, work_misuse,
                   crashed, last_report, n_delivered, n_reports, n_ticks,
                   wireless_calls, wireless_status, ps_changed_calls,
                   probe_fetch, prop_read>>

\* battery_timer_tick: fetch_battery logs a negative ret and returns; the
\* callback returns
BatteryTimerTick_return ==
    /\ ~crashed
    /\ pc_tick = "returned"
    /\ pc_tick' = "idle"
    /\ work_pending' = PendingAfterTick(work_pending)
    /\ tick_fetch' = NoFetch
    /\ UNCHANGED <<pc_probe, pc_event, pc_remove, hw, headset_connected,
                   battery_capacity, removed, battery, lock, ev_arm, work_init,
                   timer_remaining, sched_ret, work_misuse, crashed,
                   last_report, n_delivered, n_reports, n_ticks,
                   wireless_calls, wireless_status, ps_changed_calls,
                   probe_fetch, prop_read>>

\* --------------------------------------------------------------- remove

\* remove is called on a device whose probe returned 0:
\* spin_lock_irqsave(&headset->lock, flags)
Remove_lock ==
    /\ ~crashed
    /\ pc_probe = "done"
    /\ pc_remove = "idle"
    /\ LockAvailable
    /\ lock' = "remove"
    /\ pc_remove' = "set_removed"
    /\ UNCHANGED <<pc_probe, pc_event, pc_tick, hw, headset_connected,
                   battery_capacity, removed, battery, ev_arm, work_init,
                   work_pending, timer_remaining, sched_ret, work_misuse,
                   crashed, last_report, n_delivered, n_reports, n_ticks,
                   wireless_calls, wireless_status, ps_changed_calls,
                   tick_fetch, probe_fetch, prop_read>>

\* remove: headset->removed = true
Remove_set_removed ==
    /\ ~crashed
    /\ pc_remove = "set_removed"
    /\ removed' = (removed \/ RemovedAfterRemove)
    /\ pc_remove' = "unlock"
    /\ UNCHANGED <<pc_probe, pc_event, pc_tick, hw, headset_connected,
                   battery_capacity, battery, lock, ev_arm, work_init,
                   work_pending, timer_remaining, sched_ret, work_misuse,
                   crashed, last_report, n_delivered, n_reports, n_ticks,
                   wireless_calls, wireless_status, ps_changed_calls,
                   tick_fetch, probe_fetch, prop_read>>

\* remove: spin_unlock_irqrestore(&headset->lock, flags)
Remove_unlock ==
    /\ ~crashed
    /\ pc_remove = "unlock"
    /\ lock' = LockReleased
    /\ pc_remove' = "cancel"
    /\ UNCHANGED <<pc_probe, pc_event, pc_tick, hw, headset_connected,
                   battery_capacity, removed, battery, ev_arm, work_init,
                   work_pending, timer_remaining, sched_ret, work_misuse,
                   crashed, last_report, n_delivered, n_reports, n_ticks,
                   wireless_calls, wireless_status, ps_changed_calls,
                   tick_fetch, probe_fetch, prop_read>>

\* remove: cancel_delayed_work_sync, first half: the timer is deleted and
\* the pending instance taken off.  On a work that was queued without
\* INIT_DELAYED_WORK the PENDING bit can never be claimed and the call
\* spins.
Remove_cancel ==
    /\ ~crashed
    /\ pc_remove = "cancel"
    /\ work_init \/ work_pending = 0
    /\ work_pending' = CancelledPending(work_pending)
    /\ work_misuse' = (work_misuse \/ ~work_init)
    /\ pc_remove' = "flush"
    /\ UNCHANGED <<pc_probe, pc_event, pc_tick, hw, headset_connected,
                   battery_capacity, removed, battery, lock, ev_arm, work_init,
                   timer_remaining, crashed, last_report, n_delivered,
                   n_reports, n_ticks, wireless_calls, wireless_status,
                   ps_changed_calls, sched_ret, tick_fetch, probe_fetch,
                   prop_read>>

\* remove: cancel_delayed_work_sync, second half: wait for an executing
\* callback, then return
Remove_flush ==
    /\ ~crashed
    /\ pc_remove = "flush"
    /\ FlushComplete
    /\ pc_remove' = "hw_stop"
    /\ UNCHANGED <<pc_probe, pc_event, pc_tick, hw, headset_connected,
                   battery_capacity, removed, battery, lock, ev_arm, work_init,
                   work_pending, timer_remaining, sched_ret, work_misuse,
                   crashed, last_report, n_delivered, n_reports, n_ticks,
                   wireless_calls, wireless_status, ps_changed_calls,
                   tick_fetch, probe_fetch, prop_read>>

\* remove: hid_hw_stop(hdev); return
Remove_hw_stop ==
    /\ ~crashed
    /\ pc_remove = "hw_stop"
    /\ hw' = "stopped"
    /\ pc_remove' = "done"
    /\ UNCHANGED <<pc_probe, pc_event, pc_tick, headset_connected,
                   battery_capacity, removed, battery, lock, ev_arm, work_init,
                   work_pending, timer_remaining, sched_ret, work_misuse,
                   crashed, last_report, n_delivered, n_reports, n_ticks,
                   wireless_calls, wireless_status, ps_changed_calls,
                   tick_fetch, probe_fetch, prop_read>>

\* -------------------------------------------------------- specification

RawEvent == \E r \in Reports : RawEvent_parse(r)

\* ----------------------------------------------------- get_property

\* The power-supply core calls steelseries_headset_battery_get_property on
\* the registered supply.  The function only loads headset_connected or
\* battery_capacity, one byte each, so the call is one step; prop_read is
\* the caller's ret and val->intval until the caller has taken them.
GetProperty_call ==
    /\ ~crashed
    /\ battery = "valid"
    /\ prop_read.psp = "none"
    /\ \E psp \in Properties :
           prop_read' = [psp |-> psp, ret |-> GetProperty(psp).ret,
                         intval |-> GetProperty(psp).intval]
    /\ UNCHANGED driver_vars

\* the caller has taken the result
GetProperty_return ==
    /\ prop_read.psp # "none"
    /\ prop_read' = NoRead
    /\ UNCHANGED driver_vars

Next ==
    \/ Probe_start
    \/ BatteryRegister_name
    \/ BatteryRegister_supply
    \/ BatteryRegister_init_work
    \/ BatteryRegister_fetch
    \/ BatteryRegister_request
    \/ BatteryRegister_return
    \/ RawEvent
    \/ RawEvent_lock
    \/ RawEvent_check
    \/ RawEvent_schedule
    \/ RawEvent_unlock
    \/ TimerAdvance
    \/ BatteryTimerTick_start
    \/ BatteryTimerTick_fetch
    \/ BatteryTimerTick_request
    \/ BatteryTimerTick_return
    \/ Remove_lock
    \/ Remove_set_removed
    \/ Remove_unlock
    \/ Remove_cancel
    \/ Remove_flush
    \/ Remove_hw_stop

Spec == Init /\ [][Next]_vars

\* Scheduling: a context that has a step to take takes it (threads, the
\* interrupt path and the workqueue worker make progress, the timer of a
\* pending work runs down, the transport answers every request).  Whether
\* a report is delivered and whether remove is called is up to the
\* environment.
Fairness ==
    /\ WF_vars(Probe_start)
    /\ WF_vars(BatteryRegister_name)
    /\ WF_vars(BatteryRegister_supply)
    /\ WF_vars(BatteryRegister_init_work)
    /\ WF_vars(BatteryRegister_fetch)
    /\ WF_vars(BatteryRegister_request)
    /\ WF_vars(BatteryRegister_return)
    /\ WF_vars(RawEvent_lock)
    /\ WF_vars(RawEvent_check)
    /\ WF_vars(RawEvent_schedule)
    /\ WF_vars(RawEvent_unlock)
    /\ WF_vars(TimerAdvance)
    /\ WF_vars(BatteryTimerTick_start)
    /\ WF_vars(BatteryTimerTick_fetch)
    /\ WF_vars(BatteryTimerTick_request)
    /\ WF_vars(BatteryTimerTick_return)
    /\ WF_vars(Remove_set_removed)
    /\ WF_vars(Remove_unlock)
    /\ WF_vars(Remove_cancel)
    /\ WF_vars(Remove_flush)
    /\ WF_vars(Remove_hw_stop)

FairSpec == Spec /\ Fairness

\* The driver together with readers of the power supply.  A get_property
\* call is a single step of the driver's state, so no driver step falls
\* between the call and the return of its value.
PropNext ==
    \/ prop_read.psp = "none" /\ Next
    \/ GetProperty_call
    \/ GetProperty_return

PropSpec == Init /\ [][PropNext]_vars

\* ---------------------------------------------------------------- claims

\* The step in which raw_event is entered with a report.
ReportStep == n_delivered' = n_delivered + 1

\* The step in which raw_event calls schedule_delayed_work.
ScheduleStep == pc_event = "schedule" /\ pc_event' = "unlock"

\* C1: once remove has set removed and cancel_delayed_work_sync has
\* returned, no tick executes and no instance of the work is pending, in
\* every later state, whatever reports are delivered meanwhile or afterwards.
C1_NoPollAfterCancel ==
    pc_remove \in {"hw_stop", "done"} =>
        /\ removed
        /\ work_pending = 0
        /\ pc_tick = "idle"

\* C1 witness: remove has returned and a report delivered since the flag
\* was written has gone through the arm decision without arming.
C1_Witness ==
    /\ pc_remove = "done"
    /\ pc_event = "unlock"
    /\ ~ev_arm
    /\ work_init
    /\ work_pending = 0

\* C2: no step queues the work in a state where removed is true.
C2_NoArmWhenRemoved ==
    [][work_pending' > work_pending => ~removed /\ ~removed']_vars

\* C2 witness: a report concurrent with remove (the flag is written, the
\* cancel has not run) saw removed under the lock and did not arm.
C2_Witness ==
    /\ pc_remove = "cancel"
    /\ pc_event = "unlock"
    /\ ~ev_arm
    /\ removed
    /\ work_init

\* C3: remove neither stops the transport nor returns while a tick is
\* executing.
C3_RemoveWaitsForTick ==
    (hw = "stopped" \/ pc_remove = "done") => pc_tick = "idle"

\* C3 witness: remove is inside cancel_delayed_work_sync while a tick is
\* executing its request.
C3_Witness ==
    /\ pc_remove = "flush"
    /\ pc_tick = "request"
    /\ hw = "started"

\* C4: at most one instance of the work is pending; a report that reaches
\* schedule_delayed_work leaves exactly one pending, and a tick that starts
\* takes that one, so that none is left for the same reports.
C4_AtMostOnePending ==
    /\ [](work_pending <= 1)
    /\ [][ScheduleStep => work_pending' = 1]_vars
    /\ [][n_ticks' = n_ticks + 1 => work_pending = 1 /\ work_pending' = 0]_vars

\* C4 witness: a second report found the work pending and one instance is
\* pending.
C4_Witness ==
    /\ n_reports >= 2
    /\ sched_ret = "false"
    /\ pc_event = "unlock"
    /\ work_init
    /\ ~removed
    /\ work_pending = 1

\* C5 as claimed: a report handled while the work is pending and removed is
\* false moves the expiry to 3000 ms after that report.
C5_Claimed ==
    [][ScheduleStep /\ work_init /\ work_pending > 0 /\ ~removed
       => timer_remaining' = STEELSERIES_HEADSET_BATTERY_TIMEOUT_MS]_vars

\* C5 amended: a report handled while the work is pending and removed is
\* false leaves the pending instance and its expiry as they were: the tick
\* fires 3000 ms after the report that queued it.
C5_PendingKept ==
    [][ScheduleStep /\ work_init /\ work_pending > 0 /\ ~removed
       => /\ timer_remaining' = timer_remaining
          /\ work_pending' = work_pending
          /\ sched_ret' = "false"]_vars

\* C5 witness: schedule_delayed_work has just returned false with 1000 ms
\* left on the timer of the pending instance.
C5_Witness ==
    /\ pc_event = "unlock"
    /\ sched_ret = "false"
    /\ work_init
    /\ ~removed
    /\ work_pending = 1
    /\ timer_remaining = 1000

\* C6: after a report of 8 bytes or more is handled, (connected, capacity)
\* is (FALSE, 100) if byte 2 is 0x01 and (TRUE, byte 3) otherwise.
C6_DecodedState ==
    [][ReportStep /\ last_report'.size >= 8
       => IF last_report'.b2 = 1
          THEN ~headset_connected' /\ battery_capacity' = 100
          ELSE headset_connected' /\ battery_capacity' = last_report'.b3]_vars

\* C6 witness: a report with byte 3 = 255 has been handled and 255 is stored.
C6_Witness ==
    /\ last_report.size = 8
    /\ last_report.b2 = 0
    /\ last_report.b3 = 255
    /\ pc_event = "lock"
    /\ headset_connected
    /\ battery_capacity = 255

\* C7: a report shorter than 8 bytes changes neither connected nor capacity
\* nor the pending work, and makes no notification.
C7_ShortReportIgnored ==
    [][ReportStep /\ last_report'.size < 8
       => /\ UNCHANGED <<headset_connected, battery_capacity, work_pending,
                         timer_remaining, wireless_calls, wireless_status,
                         ps_changed_calls>>
          /\ pc_event' = "idle"]_vars

\* C7 witness: a 7-byte report that would have decoded to (TRUE, 77) was
\* delivered and the stored state is still the initial one.
C7_Witness ==
    /\ pc_probe = "done"
    /\ battery = "valid"
    /\ n_delivered = 1
    /\ last_report = [size |-> 7, b2 |-> 0, b3 |-> 77]
    /\ ~headset_connected
    /\ battery_capacity = 100
    /\ wireless_calls = 0
    /\ ps_changed_calls = 0

\* C8: a handled report calls usb_set_wireless_status once if the decoded
\* connected value differs from the stored one and not otherwise, and
\* power_supply_changed once if the decoded capacity differs from the stored
\* one and not otherwise; a stored value changes only with its notification.
C8_NotifyIffChanged ==
    [][ReportStep =>
        LET r == last_report'
            handled == r.size >= 8
            conn == r.b2 # 1
            cap == IF r.b2 = 1 THEN 100 ELSE r.b3
        IN  /\ wireless_calls' - wireless_calls =
                 IF handled /\ conn # headset_connected THEN 1 ELSE 0
            /\ ps_changed_calls' - ps_changed_calls =
                 IF handled /\ cap # battery_capacity THEN 1 ELSE 0
            /\ headset_connected' # headset_connected
                 => wireless_calls' = wireless_calls + 1
            /\ battery_capacity' # battery_capacity
                 => ps_changed_calls' = ps_changed_calls + 1]_vars

\* C8 witness: three reports were handled on a registered battery and one
\* set of notifications was made, so a report that decoded to the stored
\* values made none.
C8_Witness ==
    /\ pc_probe = "done"
    /\ battery = "valid"
    /\ n_reports = 3
    /\ wireless_calls = 1
    /\ ps_changed_calls = 1
    /\ headset_connected
    /\ battery_capacity = 77

\* C9 as claimed: when probe has returned 0 the stored state is
\* (FALSE, 100); a first report with byte 2 = 0x01 makes no notification,
\* and a following report with byte 2 = 0x00, byte 3 = 77 makes one
\* wireless-status and one power-supply notification and stores 77.
C9_Claimed ==
    /\ [](pc_probe = "done" /\ n_delivered = 0
          => ~headset_connected /\ battery_capacity = 100)
    /\ [][pc_probe = "done" /\ n_delivered = 0 /\ ReportStep
          /\ last_report'.size = 8 /\ last_report'.b2 = 1
          => UNCHANGED <<wireless_calls, ps_changed_calls>>]_vars
    /\ [][pc_probe = "done" /\ n_delivered = 1 /\ ReportStep
          /\ last_report.size = 8 /\ last_report.b2 = 1
          /\ last_report' = [size |-> 8, b2 |-> 0, b3 |-> 77]
          => /\ wireless_calls' = wireless_calls + 1
             /\ wireless_status' = "connected"
             /\ ps_changed_calls' = ps_changed_calls + 1
             /\ battery_capacity' = 77]_vars

\* C10: only the report path queues the work, the tick never does; so no
\* more ticks start than reports of 8 bytes or more were handled.
C10_TickNeverRearms ==
    /\ [](n_ticks <= n_reports)
    /\ [][work_pending' > work_pending => ScheduleStep]_vars
    /\ [][pc_tick' # pc_tick => work_pending' <= work_pending]_vars

\* C10 witness: every handled report has had its tick, the last tick has
\* returned and nothing is pending.
C10_Witness ==
    /\ n_reports = n_delivered
    /\ n_delivered = MaxReports
    /\ n_ticks >= 1
    /\ pc_tick = "idle"
    /\ pc_event = "idle"
    /\ work_pending = 0
    /\ ~removed

\* C12: the request fails (negative return) exactly when the transport
\* reports fewer than the 2 bytes sent, for results 0, 1 and a negative
\* errno, and succeeds otherwise; the step and the return after it leave
\* connected, capacity, removed and the pending work alone, and the return
\* issues no further request.
C12_FetchFailsOnShortWrite ==
    /\ [](/\ tick_fetch.st = "returned"
             => (tick_fetch.ret < 0 <=> tick_fetch.hw < 2)
          /\ probe_fetch.st = "returned"
             => (probe_fetch.ret < 0 <=> probe_fetch.hw < 2))
    /\ [][tick_fetch' # tick_fetch /\ tick_fetch.st \in {"request", "returned"}
          => /\ UNCHANGED <<headset_connected, battery_capacity, removed,
                            work_pending, timer_remaining>>
             /\ tick_fetch'.st # "request"]_vars
    /\ [][probe_fetch' # probe_fetch
          /\ probe_fetch.st \in {"request", "returned"}
          => /\ UNCHANGED <<headset_connected, battery_capacity, removed,
                            work_pending, timer_remaining>>
             /\ probe_fetch'.st # "request"]_vars

\* C12 witness: the transport accepted 1 of the 2 bytes and the request
\* made by a tick failed with -ENODATA while a report had armed the work
\* again.
C12_Witness ==
    /\ tick_fetch.st = "returned"
    /\ tick_fetch.hw = 1
    /\ tick_fetch.ret = -ENODATA
    /\ work_pending = 1
    /\ headset_connected

\* C11 as claimed: a report of 8 bytes or more handled while removed is
\* false is followed, under fair scheduling, by a tick started after it
\* that issues the request (0x06, 0x12), unless remove intervenes.
C11_Claimed ==
    \A k \in 0..MaxReports :
        (pc_event = "lock" /\ ~removed /\ n_ticks = k)
        ~> \/ removed
           \/ /\ n_ticks > k
              /\ tick_fetch.st = "request"
              /\ tick_fetch.id = 6
              /\ tick_fetch.buf = <<6, 18>>

\* C13 as claimed: when power-supply registration has failed and probe has
\* returned 0, a later report still updates connected as decoded, and no
\* report makes a power_supply_changed call or faults.
C13_Claimed ==
    [][pc_probe = "done" /\ battery # "valid" /\ ReportStep
       => /\ ps_changed_calls' = ps_changed_calls
          /\ ~crashed'
          /\ last_report'.size >= 8
             => headset_connected' = (last_report'.b2 # 1)]_vars

\* C14 as claimed: the stored capacity, and the capacity the power supply
\* returns, always lie in 0..100.
C14_Claimed ==
    /\ battery_capacity \in 0..100
    /\ GetProperty("CAPACITY").intval \in 0..100

\* C14: the stored capacity, and the capacity the power supply returns, are
\* an unsigned byte (0..255): 0 before registration, the placeholder 100, or
\* byte 3 of a report stored as received, never clamped.
C14_CapacityIsByte ==
    /\ [](/\ battery_capacity \in 0..255
          /\ GetProperty("CAPACITY").intval = battery_capacity
          /\ battery_capacity \in {0, 100} \cup Byte3Values)
    /\ [][battery_capacity' # battery_capacity
          => \/ pc_probe = "register_name" /\ battery_capacity' = 100
             \/ /\ ReportStep
                /\ battery_capacity' = ParseCapacity(last_report')]_vars

\* a report with byte 3 = 255 left 255 in the stored capacity
C14_Witness ==
    /\ battery_capacity = 255
    /\ last_report.b3 = 255
    /\ GetProperty("CAPACITY").intval = 255

\* C16 as claimed: in no state is the lock held by any context while a
\* battery request is in flight or while remove waits in
\* cancel_delayed_work_sync.
C16_Claimed == lock # "none" => ~InFlight /\ pc_remove # "flush"

\* C16: the lock is held by remove only around the removed write and by
\* raw_event only around the removed check and the schedule call; the
\* holder itself never issues a request or waits in cancel_delayed_work_sync
\* with the lock held: requests start and the wait starts only in steps of a
\* context that does not own the lock.
C16_LockScope ==
    /\ [](/\ lock \in {"none", "event", "remove"}
          /\ lock = "remove" <=> pc_remove \in {"set_removed", "unlock"}
          /\ lock = "event" <=> pc_event \in {"check", "schedule", "unlock"})
    /\ [][/\ InFlight' /\ ~InFlight => pc_event' = pc_event /\ lock' = lock
          /\ pc_remove' = "flush" /\ pc_remove # "flush"
             => lock # "remove" /\ lock' # "remove"]_vars

\* raw_event holds the lock for its check while the tick's request is in
\* flight and remove waits for the tick
C16_Witness ==
    /\ lock = "event"
    /\ pc_event = "check"
    /\ tick_fetch.st = "request"
    /\ pc_remove = "flush"

\* C17 as claimed: with every transfer returning (fairness of the request
\* steps) a remove that has started eventually returns, whatever the report
\* handler and the poll tick do meanwhile (an oops in the report handler
\* apart).
C17_Claimed ==
    (pc_remove # "idle" /\ ~crashed) ~> (pc_remove = "done" \/ crashed)

\* C18 as claimed, for the uses made after attach has returned: every
\* schedule_delayed_work of the report path and every
\* cancel_delayed_work_sync of remove acts on a battery_work that
\* INIT_DELAYED_WORK has set up, whatever the outcome of the registration.
C18_Claimed ==
    [][/\ pc_probe = "done"
       /\ ScheduleStep \/ (pc_remove = "cancel" /\ pc_remove' = "flush")
       => work_init]_vars

\* C19: once the power supply is registered, whenever no report is being
\* handled, a headset that is not connected has the placeholder capacity
\* 100: a supply whose status reads UNKNOWN returns capacity 100.
C19_UnknownMeansPlaceholder ==
    battery = "valid" /\ pc_event = "idle"
    => /\ ~headset_connected => battery_capacity = 100
       /\ GetProperty("STATUS").intval = "UNKNOWN"
          => GetProperty("CAPACITY").intval = 100

\* the headset connected at 77%, then a disconnect report brought the
\* placeholder back
C19_Witness ==
    /\ battery = "valid"
    /\ pc_event = "idle"
    /\ ~headset_connected
    /\ last_report.size >= 8 /\ last_report.b2 = 1
    /\ wireless_calls >= 2
    /\ ps_changed_calls >= 2
    /\ battery_capacity = 100

\* C20: once remove has called hid_hw_stop no battery request is in flight
\* and no poll tick runs; a request is issued only by the attach-time fetch
\* or by a poll tick, with the transport started; and remove stops the
\* transport only with removed set, the work cancelled and no tick running.
C20_NoRequestAfterStop ==
    /\ [](hw = "stopped" => ~InFlight /\ pc_tick = "idle")
    /\ [][/\ tick_fetch'.st = "request" /\ tick_fetch.st # "request"
             => pc_tick = "fetch" /\ hw = "started" /\ hw' = "started"
          /\ probe_fetch'.st = "request" /\ probe_fetch.st # "request"
             => pc_probe = "fetch" /\ hw = "started" /\ hw' = "started"]_vars
    /\ [][hw' = "stopped" /\ hw # "stopped"
          => /\ pc_remove = "hw_stop"
             /\ removed
             /\ work_pending = 0
             /\ pc_tick = "idle"]_vars

\* the transport is stopped after a poll tick had run, and a report handler
\* that found removed set is leaving without arming
C20_Witness ==
    /\ hw = "stopped"
    /\ n_ticks >= 1
    /\ pc_event = "unlock"
    /\ ~ev_arm
    /\ work_pending = 0

\* C15: a property read on the registered power supply returns 0 with
\* PRESENT = 1, STATUS = DISCHARGING when headset_connected and UNKNOWN
\* otherwise, SCOPE = DEVICE and CAPACITY = battery_capacity; any other
\* property returns -EINVAL; and the read leaves the driver's state as it
\* was.
C15_PropertyReads ==
    /\ [](prop_read.psp # "none"
          => /\ battery = "valid"
             /\ prop_read.psp = "PRESENT"
                => prop_read.ret = 0 /\ prop_read.intval = 1
             /\ prop_read.psp = "STATUS"
                => /\ prop_read.ret = 0
                   /\ headset_connected => prop_read.intval = "DISCHARGING"
                   /\ ~headset_connected => prop_read.intval = "UNKNOWN"
             /\ prop_read.psp = "SCOPE"
                => prop_read.ret = 0 /\ prop_read.intval = "DEVICE"
             /\ prop_read.psp = "CAPACITY"
                => prop_read.ret = 0 /\ prop_read.intval = battery_capacity
             /\ prop_read.psp \notin {"PRESENT", "STATUS", "SCOPE", "CAPACITY"}
                => prop_read.ret = -22)
    /\ [][prop_read' # prop_read => UNCHANGED driver_vars]_vars

\* the status read as UNKNOWN after the headset had connected and
\* disconnected again
C15_Witness ==
    /\ prop_read.psp = "STATUS"
    /\ prop_read.intval = "UNKNOWN"
    /\ wireless_calls >= 2
    /\ battery_capacity = 100

====
